---- MODULE Spec2Model ----
(***************************************************************************)
(* A model of disperse/news_file.py: the NEWS-file operations              *)
(* find_pending, validate, mark_released and add_pending, the header       *)
(* skipper and the version-line grammar.                                   *)
(*                                                                         *)
(* A byte string is a sequence of one-character strings; the file kept by  *)
(* the Tree is one such sequence, and get_file_lines cuts it into lines    *)
(* that keep their "\n".  Python's 0-based index i is kept as it is in the *)
(* code; lines[i] is written lines[i + 1].                                 *)
(***************************************************************************)
EXTENDS Integers, Sequences, FiniteSets, TLC

VARIABLES
    tree,     \* the bytes of the NEWS file held by the Tree
    op,       \* the operation that ran last ("init" before any)
    input,    \* its arguments
    exc,      \* the exception it raised, "none" when it returned
    args,     \* the arguments of that exception
    ret,      \* the value it returned
    read,     \* the bytes get_file_lines gave it
    writes    \* how many times it called put_file_bytes_non_atomic

vars == <<tree, op, input, exc, args, ret, read, writes>>

-----------------------------------------------------------------------------
(* Bytes and the str/bytes methods the code uses *)

None == <<"None">>

TAB == "\t"
NL == "\n"
CR == "\r"
SP == " "

\* bytes.strip() removes ASCII whitespace (of which the model has these four)
Whitespace == {SP, TAB, NL, CR}

UNRELEASED == <<"U","N","R","E","L","E","A","S","E","D">>
VERSION_PLACEHOLDER == <<"%","(","v","e","r","s","i","o","n",")","s">>
ChangelogFor == <<"C","h","a","n","g","e","l","o","g"," ","f","o","r"," ">>
Underline == <<"=","=","=","=","=","=">>

RECURSIVE lstrip(_)
lstrip(s) ==
    IF s # <<>> /\ Head(s) \in Whitespace THEN lstrip(Tail(s)) ELSE s

RECURSIVE rstrip(_)
rstrip(s) ==
    IF s # <<>> /\ s[Len(s)] \in Whitespace
    THEN rstrip(SubSeq(s, 1, Len(s) - 1))
    ELSE s

strip(s) == rstrip(lstrip(s))

startswith(s, p) == Len(s) >= Len(p) /\ SubSeq(s, 1, Len(p)) = p

endswith(s, p) ==
    Len(s) >= Len(p) /\ SubSeq(s, Len(s) - Len(p) + 1, Len(s)) = p

Contains(s, c) == \E k \in 1..Len(s) : s[k] = c

\* the 1-based place of the first c in s, 0 when there is none
Find(s, c) ==
    IF Contains(s, c)
    THEN CHOOSE k \in 1..Len(s) : s[k] = c /\ \A j \in 1..(k - 1) : s[j] # c
    ELSE 0

\* s.split(c, 1) of an s that holds c
split1(s, c) ==
    LET k == Find(s, c)
    IN  <<SubSeq(s, 1, k - 1), SubSeq(s, k + 1, Len(s))>>

\* s[1:-1]
Slice1m1(s) == SubSeq(s, 2, Len(s) - 1)

RECURSIVE Join(_)
Join(ls) == IF ls = <<>> THEN <<>> ELSE Head(ls) \o Join(Tail(ls))

\* tree.get_file_lines(path): the lines of the file, each with its "\n"
\* (the last one without, when the file does not end in one)
RECURSIVE get_file_lines(_)
get_file_lines(bytes) ==
    IF bytes = <<>> THEN <<>>
    ELSE LET k == Find(bytes, NL)
         IN  IF k = 0 THEN <<bytes>>
             ELSE <<SubSeq(bytes, 1, k)>>
                      \o get_file_lines(SubSeq(bytes, k + 1, Len(bytes)))

\* insert with the index off by one
insert_after(ls, i, x) ==
    SubSeq(ls, 1, i + 1) \o <<x>> \o SubSeq(ls, i + 2, Len(ls))

insert(ls, i, x) == SubSeq(ls, 1, i) \o <<x>> \o SubSeq(ls, i + 1, Len(ls))

Digit(n) == <<"0","1","2","3","4","5","6","7","8","9">>[n + 1]

Digits == {Digit(n) : n \in 0..9}

\* strftime with "%Y-%-m-%-d": month and day without their leading zero
strftime_unpadded(d) ==
    <<Digit(d.year \div 1000), Digit((d.year \div 100) % 10),
      Digit((d.year \div 10) % 10), Digit(d.year % 10), "-">>
    \o (IF d.month < 10 THEN <<Digit(d.month)>>
        ELSE <<Digit(d.month \div 10), Digit(d.month % 10)>>)
    \o <<"-">>
    \o (IF d.day < 10 THEN <<Digit(d.day)>>
        ELSE <<Digit(d.day \div 10), Digit(d.day % 10)>>)

\* release_date.strftime("%Y-%m-%d")
strftime(d) ==
    <<Digit(d.year \div 1000), Digit((d.year \div 100) % 10),
      Digit((d.year \div 10) % 10), Digit(d.year % 10), "-",
      Digit(d.month \div 10), Digit(d.month % 10), "-",
      Digit(d.day \div 10), Digit(d.day % 10)>>

\* line_format % {'version': version, 'date': date}; a format is a sequence
\* of literal characters and of the two conversions
RECURSIVE Format(_, _, _)
Format(line_format, version, date) ==
    IF line_format = <<>> THEN <<>>
    ELSE LET h == Head(line_format)
             piece == IF h = "%(version)s" THEN version
                      ELSE IF h = "%(date)s" THEN date
                      ELSE <<h>>
         IN  piece \o Format(Tail(line_format), version, date)

\* the tab template written with a space
FORMAT_TAB_SPACED == <<"%(version)s", SP, "%(date)s">>

FORMAT_TAB == <<"%(version)s", TAB, "%(date)s">>
FORMAT_PAREN == <<"%(version)s", SP, "(", "%(date)s", ")">>
FORMAT_SPACE == <<"%(version)s", SP, "%(date)s">>
FORMAT_VERSION == <<"%(version)s">>

-----------------------------------------------------------------------------
(* The header skipper *)

RECURSIVE SkipBlank(_, _)
SkipBlank(lines, i) ==
    IF i >= Len(lines) THEN [raised |-> TRUE, i |-> i]
    ELSE IF strip(lines[i + 1]) = <<>> THEN SkipBlank(lines, i + 1)
    ELSE [raised |-> FALSE, i |-> i]

\* skip_header without the step over the underline
skip_header_no_underline(lines) ==
    IF Len(lines) = 0 THEN [raised |-> TRUE, i |-> 0]
    ELSE IF startswith(lines[1], ChangelogFor)
    THEN IF Len(lines) < 2 THEN [raised |-> TRUE, i |-> 1]
         ELSE SkipBlank(lines, 1)
    ELSE [raised |-> FALSE, i |-> 0]

\* raised: an IndexError left skip_header
skip_header(lines) ==
    IF Len(lines) = 0 THEN [raised |-> TRUE, i |-> 0]
    ELSE IF startswith(lines[1], ChangelogFor)
    THEN IF Len(lines) < 2 THEN [raised |-> TRUE, i |-> 1]
         ELSE IF startswith(lines[2], Underline)
              THEN SkipBlank(lines, 2)
              ELSE SkipBlank(lines, 1)
    ELSE [raised |-> FALSE, i |-> 0]

-----------------------------------------------------------------------------
(* The version-line grammar *)

\* the pattern written [0-9\.]* : the empty string matches
DigitsAndDots_star(v) == \A k \in 1..Len(v) : v[k] \in Digits \cup {"."}

\* the pattern applied with re.search: one digit or dot anywhere is enough
DigitsAndDots_search(v) == \E k \in 1..Len(v) : v[k] \in Digits \cup {"."}

\* re.fullmatch(r'[0-9\.]+', v)
DigitsAndDots(v) ==
    Len(v) >= 1 /\ \A k \in 1..Len(v) : v[k] \in Digits \cup {"."}

\* raised: OddVersion(v) left check_version
check_version(v) ==
    IF v = UNRELEASED \/ v = VERSION_PLACEHOLDER
    THEN [raised |-> FALSE, value |-> TRUE]
    ELSE IF ~DigitsAndDots(v) THEN [raised |-> TRUE, value |-> FALSE]
    ELSE [raised |-> FALSE, value |-> FALSE]

check_date(d) == d = UNRELEASED

Parsed(version, date, line_format, pending) ==
    [exc |-> "none", args |-> <<>>, version |-> version, date |-> date,
     line_format |-> line_format, pending |-> pending]

Odd(version) ==
    [exc |-> "OddVersion", args |-> <<version>>, version |-> version,
     date |-> None, line_format |-> <<>>, pending |-> FALSE]

parse_version_line(line) ==
    LET s == strip(line)
    IN  IF Contains(s, TAB)
        THEN LET version == split1(s, TAB)[1]
                 date == split1(s, TAB)[2]
                 cv == check_version(version)
             IN  IF cv.raised THEN Odd(version)
                 ELSE Parsed(version, date, FORMAT_TAB,
                             cv.value \/ check_date(date))
        ELSE IF Contains(s, SP)
        THEN LET version == split1(s, SP)[1]
                 date == split1(s, SP)[2]
                 cv == check_version(version)
             IN  IF cv.raised THEN Odd(version)
                 ELSE LET pending == cv.value \/ check_date(Slice1m1(date))
                      IN  IF startswith(date, <<"(">>) /\ endswith(date, <<")">>)
                          THEN Parsed(version, Slice1m1(date), FORMAT_PAREN,
                                      pending)
                          ELSE Parsed(version, date, FORMAT_SPACE, pending)
        ELSE LET cv == check_version(s)
             IN  IF cv.raised THEN Odd(s)
                 ELSE Parsed(s, None, FORMAT_VERSION, cv.value)

-----------------------------------------------------------------------------
(* The operations.  Each gives what the call did: the exception raised     *)
(* ("none" when it returned), the value returned, the bytes of the file    *)
(* afterwards and the number of writes.                                    *)

Raise(e, a, bytes) ==
    [exc |-> e, args |-> a, ret |-> None, tree |-> bytes, writes |-> 0]

Return(v, bytes, n) ==
    [exc |-> "none", args |-> <<>>, ret |-> v, tree |-> bytes, writes |-> n]

\* find_pending that writes the document back with its header trimmed
news_find_pending_rewrites(bytes) ==
    LET lines == get_file_lines(bytes)
        h == skip_header(lines)
    IN  IF h.raised THEN Raise("IndexError", <<>>, bytes)
        ELSE LET p == parse_version_line(lines[h.i + 1])
             IN  IF p.exc # "none" THEN Raise(p.exc, p.args, bytes)
                 ELSE IF ~p.pending
                 THEN Raise("NoUnreleasedChanges", <<>>, bytes)
                 ELSE Return(p.version,
                             Join([lines EXCEPT ![h.i + 1] =
                                      strip(@) \o <<NL>>]), 1)

news_find_pending(bytes) ==
    LET lines == get_file_lines(bytes)
        h == skip_header(lines)
    IN  IF h.raised THEN Raise("IndexError", <<>>, bytes)
        ELSE LET p == parse_version_line(lines[h.i + 1])
             IN  IF p.exc # "none" THEN Raise(p.exc, p.args, bytes)
                 ELSE IF ~p.pending
                 THEN Raise("NoUnreleasedChanges", <<>>, bytes)
                 ELSE Return(p.version, bytes, 0)

\* validate with a bare `except`: every exception is swallowed
validate_bare_except(bytes) ==
    LET r == news_find_pending(bytes)
    IN  Return(None, r.tree, r.writes)

validate(bytes) ==
    LET r == news_find_pending(bytes)
    IN  IF r.exc = "NoUnreleasedChanges" THEN Return(None, r.tree, r.writes)
        ELSE IF r.exc = "none" THEN Return(None, r.tree, r.writes)
        ELSE r

\* the loop of mark_released with `continue` where the code has `break`
RECURSIVE change_lines_continue(_, _)
change_lines_continue(lines, i) ==
    IF i + 1 >= Len(lines) THEN <<>>
    ELSE LET line == lines[i + 2]
         IN  IF strip(line) = <<>> \/ startswith(line, <<SP>>)
                \/ startswith(line, <<TAB>>)
             THEN <<line>> \o change_lines_continue(lines, i + 1)
             ELSE change_lines_continue(lines, i + 1)

\* the lines after 0-based index i that mark_released collects
RECURSIVE change_lines(_, _)
change_lines(lines, i) ==
    IF i + 1 >= Len(lines) THEN <<>>
    ELSE LET line == lines[i + 2]
         IN  IF strip(line) = <<>> \/ startswith(line, <<SP>>)
                \/ startswith(line, <<TAB>>)
             THEN <<line>> \o change_lines(lines, i + 1)
             ELSE <<>>

\* the two checks of mark_released in the other order
mark_released_check_swapped(p, expected_version) ==
    IF expected_version # p.version THEN "AssertionError"
    ELSE IF ~p.pending THEN "NoUnreleasedChanges"
    ELSE "none"

\* the two checks mark_released makes before it changes anything: the
\* exception it raises, "none" when both pass
mark_released_check(p, expected_version) ==
    IF ~p.pending THEN "NoUnreleasedChanges"
    ELSE IF expected_version # p.version THEN "AssertionError"
    ELSE "none"

news_mark_released(bytes, expected_version, release_date) ==
    LET lines == get_file_lines(bytes)
        h == skip_header(lines)
    IN  IF h.raised THEN Raise("IndexError", <<>>, bytes)
        ELSE LET p == parse_version_line(lines[h.i + 1])
             IN  IF p.exc # "none" THEN Raise(p.exc, p.args, bytes)
                 ELSE IF mark_released_check(p, expected_version) # "none"
                 THEN Raise(mark_released_check(p, expected_version),
                            IF p.pending THEN <<p.version, expected_version>>
                            ELSE <<>>, bytes)
                 ELSE LET written ==
                              [lines EXCEPT ![h.i + 1] =
                                  Format(p.line_format, p.version,
                                         strftime(release_date)) \o <<NL>>]
                      IN  Return(Join(change_lines(lines, h.i)),
                                 Join(written), 1)

\* add_pending that inserts and writes before it looks at `pending`
news_add_pending_write_first(bytes, new_version) ==
    LET lines == get_file_lines(bytes)
        h == skip_header(lines)
    IN  IF h.raised THEN Raise("IndexError", <<>>, bytes)
        ELSE LET p == parse_version_line(lines[h.i + 1])
             IN  IF p.exc # "none" THEN Raise(p.exc, p.args, bytes)
                 ELSE LET blank == insert(lines, h.i, <<NL>>)
                          written ==
                              insert(blank, h.i,
                                     Format(p.line_format, new_version,
                                            UNRELEASED) \o <<NL>>)
                      IN  IF p.pending
                          THEN [exc |-> "PendingExists",
                                args |-> <<p.version, p.date>>, ret |-> None,
                                tree |-> Join(written), writes |-> 1]
                          ELSE Return(None, Join(written), 1)

news_add_pending(bytes, new_version) ==
    LET lines == get_file_lines(bytes)
        h == skip_header(lines)
    IN  IF h.raised THEN Raise("IndexError", <<>>, bytes)
        ELSE LET p == parse_version_line(lines[h.i + 1])
             IN  IF p.exc # "none" THEN Raise(p.exc, p.args, bytes)
                 ELSE IF p.pending
                 THEN Raise("PendingExists", <<p.version, p.date>>, bytes)
                 ELSE LET blank == insert(lines, h.i, <<NL>>)
                          written ==
                              insert(blank, h.i,
                                     Format(p.line_format, new_version,
                                            UNRELEASED) \o <<NL>>)
                      IN  Return(None, Join(written), 1)

-----------------------------------------------------------------------------
(* The documents the runs start from, and the arguments of the calls *)

MaxLines == 7

V12 == <<"1", ".", "2">>
V11 == <<"1", ".", "1">>
V13 == <<"1", ".", "3">>
ODD == <<"v", "1">>
DATE0 == <<"2","0","2","4","-","0","5","-","0","1">>

HeadVersions == {V12, UNRELEASED, VERSION_PLACEHOLDER, ODD}
HeadDates == {DATE0, UNRELEASED}

\* header lines without their terminator: the four layouts, a date in
\* brackets that are not parentheses, surrounding whitespace, a blank line
Headers ==
    {v \o <<TAB>> \o d : v \in HeadVersions, d \in HeadDates}
    \cup {v \o <<SP>> \o d :
             v \in HeadVersions, d \in HeadDates \cup {<<"[">> \o UNRELEASED \o <<"]">>}}
    \cup {v \o <<SP, "(">> \o d \o <<")">> : v \in HeadVersions, d \in HeadDates}
    \cup HeadVersions
    \cup {<<SP>> \o V12 \o <<TAB>> \o UNRELEASED,
          V12 \o <<SP>> \o UNRELEASED \o <<SP, CR>>,
          V12 \o <<SP, "(">>,
          <<>>}

Title == ChangelogFor \o <<"x", NL>>

Preambles ==
    {<<>>,
     <<Title, Underline \o <<NL>>, <<NL>>>>,
     <<Title, <<NL>>>>,
     <<Title, <<"=", "=", "=", NL>>, <<NL>>>>}

Bodies ==
    {<<>>,
     <<<<SP, "a", NL>>, <<NL>>>>,
     <<<<TAB, "a", NL>>, <<SP, NL>>, V11 \o <<TAB>> \o DATE0 \o <<NL>>,
       <<SP, "b">>>>,
     <<<<"x", NL>>, <<SP, "a", NL>>>>}

Documents ==
    {Join(pre \o <<h \o <<NL>>>> \o body) :
        pre \in Preambles, h \in Headers, body \in Bodies}
    \cup {Join(pre \o <<h>>) : pre \in Preambles, h \in Headers}
    \cup {<<>>, Title, Title \o <<NL>>, Title \o Underline \o <<NL, NL>>}

NewVersions == {V13, <<"2">>}
ExpectedVersions == {V12, V13, UNRELEASED, VERSION_PLACEHOLDER}
ReleaseDates ==
    {[year |-> 2024, month |-> 5, day |-> 1],
     [year |-> 2031, month |-> 12, day |-> 25]}

-----------------------------------------------------------------------------
(* The state machine: one action per operation of NewsFile *)

Init ==
    /\ tree \in Documents
    /\ op = "init"
    /\ input = <<>>
    /\ exc = "none"
    /\ args = <<>>
    /\ ret = None
    /\ read = tree
    /\ writes = 0

Call(name, in, r) ==
    /\ op' = name
    /\ input' = in
    /\ exc' = r.exc
    /\ args' = r.args
    /\ ret' = r.ret
    /\ read' = tree
    /\ writes' = r.writes
    /\ tree' = r.tree

FindPending == Call("find_pending", <<>>, news_find_pending(tree))

Validate == Call("validate", <<>>, validate(tree))

MarkReleased ==
    \E v \in ExpectedVersions, d \in ReleaseDates :
        Call("mark_released", <<v, d>>, news_mark_released(tree, v, d))

AddPending ==
    /\ Len(get_file_lines(tree)) + 2 <= MaxLines
    /\ \E v \in NewVersions :
           Call("add_pending", <<v>>, news_add_pending(tree, v))

Next == FindPending \/ Validate \/ MarkReleased \/ AddPending

Spec == Init /\ [][Next]_vars

-----------------------------------------------------------------------------
(* What the last call read: its lines, the header index and the header *)

ReadLines == get_file_lines(read)
ReadSkip == skip_header(ReadLines)
ReadIndex == ReadSkip.i
ReadHeaderLine == ReadLines[ReadIndex + 1]
ReadHeader == parse_version_line(ReadHeaderLine)

\* the grammar accepted the leading header of the document read
Accepted == ~ReadSkip.raised /\ ReadHeader.exc = "none"

WrittenLines == get_file_lines(tree)

\* the classification rule of the grammar as the design states it: a
\* sentinel version, or a date field equal to UNRELEASED
SentinelVersion(h) == h.version = UNRELEASED \/ h.version = VERSION_PLACEHOLDER
PendingFlavored(h) == SentinelVersion(h) \/ h.date = UNRELEASED

-----------------------------------------------------------------------------
(* C1 *)

\* C1: on a document whose leading header the grammar accepts, find_pending
\* returns the parsed version exactly when the version is a sentinel or the
\* date field equals UNRELEASED, and raises NoUnreleasedChanges otherwise.
C1_FindPendingClassifies ==
    (op = "find_pending" /\ Accepted) =>
        IF PendingFlavored(ReadHeader)
        THEN exc = "none" /\ ret = ReadHeader.version
        ELSE exc = "NoUnreleasedChanges"

-----------------------------------------------------------------------------
(* C2 *)

\* C2: whenever the leading header has a sentinel version or a date field
\* equal to UNRELEASED, add_pending raises PendingExists(version, date) and
\* writes nothing; and an add_pending right after a successful add_pending
\* raises PendingExists.
C2_NeverStacks ==
    /\ (op = "add_pending" /\ Accepted /\ PendingFlavored(ReadHeader)) =>
           /\ exc = "PendingExists"
           /\ args = <<ReadHeader.version, ReadHeader.date>>
           /\ writes = 0
           /\ tree = read
    /\ (op = "add_pending" /\ exc = "none") =>
           \A v \in NewVersions : news_add_pending(tree, v).exc = "PendingExists"

-----------------------------------------------------------------------------
(* C3 *)

\* C3: after add_pending(new_version) returns, new_version made of digits
\* and dots, the next find_pending returns new_version and the next
\* mark_released(new_version, d) is accepted.
C3_AddedEntryIsPending ==
    (op = "add_pending" /\ exc = "none" /\ DigitsAndDots(input[1])) =>
        /\ news_find_pending(tree).exc = "none"
        /\ news_find_pending(tree).ret = input[1]
        /\ \A d \in ReleaseDates :
               news_mark_released(tree, input[1], d).exc = "none"

-----------------------------------------------------------------------------
(* C4 *)

\* the layout of a header line, read off the line itself
LayoutOf(line) ==
    LET s == strip(line)
        rest == SubSeq(s, Find(s, SP) + 1, Len(s))
    IN  IF Contains(s, TAB) THEN "tab"
        ELSE IF ~Contains(s, SP) THEN "version"
        ELSE IF Head(rest) = "(" /\ rest[Len(rest)] = ")" THEN "paren"
        ELSE "space"

DigitValue(c) == CHOOSE n \in 0..9 : Digit(n) = c

\* s is d written YYYY-MM-DD
IsIsoDate(s, d) ==
    /\ Len(s) = 10
    /\ s[5] = "-" /\ s[8] = "-"
    /\ \A k \in {1, 2, 3, 4, 6, 7, 9, 10} : s[k] \in Digits
    /\ 1000 * DigitValue(s[1]) + 100 * DigitValue(s[2])
           + 10 * DigitValue(s[3]) + DigitValue(s[4]) = d.year
    /\ 10 * DigitValue(s[6]) + DigitValue(s[7]) = d.month
    /\ 10 * DigitValue(s[9]) + DigitValue(s[10]) = d.day

\* line is version, then `open`, then d as YYYY-MM-DD, then `close`, "\n"
IsHeaderWith(line, version, open, close, d) ==
    LET from == Len(version) + Len(open)
    IN  /\ Len(line) = from + 10 + Len(close) + 1
        /\ IsIsoDate(SubSeq(line, from + 1, from + 10), d)
        /\ line = version \o open \o SubSeq(line, from + 1, from + 10)
                      \o close \o <<NL>>

IsReleasedHeader(line, layout, version, d) ==
    CASE layout = "tab" -> IsHeaderWith(line, version, <<TAB>>, <<>>, d)
      [] layout = "space" -> IsHeaderWith(line, version, <<SP>>, <<>>, d)
      [] layout = "paren" -> IsHeaderWith(line, version, <<SP, "(">>, <<")">>, d)
      [] layout = "version" -> line = version \o <<NL>>

\* C4: a mark_released(expected_version, release_date) that returns has
\* rewritten the leading header, and no other line, to the header's own
\* layout filled with expected_version and release_date as YYYY-MM-DD; the
\* document has as many lines as before and every other line is unchanged.
C4_MarkReleasedFrame ==
    (op = "mark_released" /\ exc = "none") =>
        /\ writes = 1
        /\ Len(WrittenLines) = Len(ReadLines)
        /\ \A j \in 1..Len(ReadLines) :
               j # ReadIndex + 1 => WrittenLines[j] = ReadLines[j]
        /\ IsReleasedHeader(WrittenLines[ReadIndex + 1],
                            LayoutOf(ReadHeaderLine), input[1], input[2])

\* a parenthesized header under a title, with lines after it, was released
C4_Witness ==
    /\ op = "mark_released" /\ exc = "none"
    /\ LayoutOf(ReadHeaderLine) = "paren"
    /\ ReadIndex > 0
    /\ Len(ReadLines) > ReadIndex + 1
    /\ tree # read

-----------------------------------------------------------------------------
(* C5 *)

\* C5: after mark_released returns, the leading entry is released:
\* find_pending raises NoUnreleasedChanges, a second mark_released raises
\* NoUnreleasedChanges and writes nothing, and add_pending is accepted.
C5_ReleasedAfterMark ==
    (op = "mark_released" /\ exc = "none") =>
        /\ news_find_pending(tree).exc = "NoUnreleasedChanges"
        /\ \A v \in ExpectedVersions, d \in ReleaseDates :
               /\ news_mark_released(tree, v, d).exc = "NoUnreleasedChanges"
               /\ news_mark_released(tree, v, d).writes = 0
        /\ \A v \in NewVersions : news_add_pending(tree, v).exc = "none"

-----------------------------------------------------------------------------
(* C6 *)

\* a line that is whitespace only, or begins with a space or a tab
IsChangeLine(line) ==
    \/ \A k \in 1..Len(line) : line[k] \in Whitespace
    \/ line[1] \in {SP, TAB}

\* C6: the text mark_released returns is the concatenation, in order and
\* with their terminators, of the longest run of lines right after the
\* header that are blank or begin with a space or a tab; nothing after the
\* first other line is in it.
C6_ChangeBlock ==
    (op = "mark_released" /\ exc = "none") =>
        \E n \in 0..(Len(ReadLines) - (ReadIndex + 1)) :
            /\ \A k \in 1..n : IsChangeLine(ReadLines[ReadIndex + 1 + k])
            /\ \/ ReadIndex + 1 + n = Len(ReadLines)
               \/ ~IsChangeLine(ReadLines[ReadIndex + 2 + n])
            /\ ret = Join(SubSeq(ReadLines, ReadIndex + 2, ReadIndex + 1 + n))

\* a block was returned that stops before an older entry with indented
\* lines of its own
C6_Witness ==
    /\ op = "mark_released" /\ exc = "none"
    /\ ret # <<>>
    /\ \E j \in (ReadIndex + 2)..Len(ReadLines) :
           /\ ~IsChangeLine(ReadLines[j])
           /\ j < Len(ReadLines)
           /\ IsChangeLine(ReadLines[j + 1])

-----------------------------------------------------------------------------
(* C7 *)

-----------------------------------------------------------------------------
(* C8 *)

Failures ==
    {"NoUnreleasedChanges", "PendingExists", "OddVersion", "AssertionError",
     "IndexError"}

\* C8: a call that ends in a failure has not written and leaves the
\* document as it was read; a call writes at most once, and only a
\* mark_released or add_pending that returns writes.
C8_NoWriteOnFailure ==
    /\ exc \in Failures \cup {"none"}
    /\ exc \in Failures => writes = 0 /\ tree = read
    /\ writes \in {0, 1}
    /\ writes = 1 => op \in {"mark_released", "add_pending"} /\ exc = "none"
    /\ writes = 0 => tree = read

\* add_pending found a pending entry under a title block and refused
C8_Witness ==
    /\ op = "add_pending"
    /\ exc = "PendingExists"
    /\ ReadIndex > 0

-----------------------------------------------------------------------------
(* C9 *)

\* C9: the header add_pending inserts is the plain line
\* "<new_version> UNRELEASED", followed by one blank line, whatever the
\* layout of the header it is inserted before.
C9_PlainTemplate ==
    (op = "add_pending" /\ exc = "none") =>
        /\ WrittenLines[ReadIndex + 1] = input[1] \o <<SP>> \o UNRELEASED \o <<NL>>
        /\ WrittenLines[ReadIndex + 2] = <<NL>>

-----------------------------------------------------------------------------
(* C10 *)

\* C10: an add_pending that returns adds exactly two lines, right before
\* the header that led; the lines before it keep place and bytes, the
\* header and the lines after it keep their bytes, two places down.
C10_AddPendingFrame ==
    (op = "add_pending" /\ exc = "none") =>
        /\ Len(WrittenLines) = Len(ReadLines) + 2
        /\ \A j \in 1..ReadIndex : WrittenLines[j] = ReadLines[j]
        /\ \A j \in (ReadIndex + 1)..Len(ReadLines) :
               WrittenLines[j + 2] = ReadLines[j]

\* an entry was added between a title block and a header with lines after
C10_Witness ==
    /\ op = "add_pending" /\ exc = "none"
    /\ ReadIndex > 0
    /\ Len(ReadLines) > ReadIndex + 1

-----------------------------------------------------------------------------
(* C11 *)

\* a line without its "\n"
Chomp(line) ==
    IF line # <<>> /\ line[Len(line)] = NL
    THEN SubSeq(line, 1, Len(line) - 1)
    ELSE line

\* C11: for every header line the grammar accepts, its terminator aside,
\* rendering the returned template with the returned version and date
\* gives back the line exactly, surrounding whitespace and separator
\* included.
C11_RoundTrip ==
    (op # "init" /\ Accepted) =>
        Format(ReadHeader.line_format, ReadHeader.version, ReadHeader.date)
            = Chomp(ReadHeaderLine)

\* the same of the line with its surrounding whitespace trimmed, which the
\* grammar does before it looks at the line
C11_RoundTripTrimmed ==
    (op # "init" /\ Accepted) =>
        Format(ReadHeader.line_format, ReadHeader.version, ReadHeader.date)
            = strip(ReadHeaderLine)


\* an accepted header with whitespace before its version was parsed
C11_Witness ==
    /\ op = "find_pending" /\ Accepted
    /\ Head(ReadHeaderLine) = SP
    /\ Contains(ReadHeaderLine, TAB)
    /\ exc = "none"

-----------------------------------------------------------------------------
(* C12 *)

\* the version token of a header line: the trimmed line up to its first
\* tab, else up to its first space, else all of it
VersionToken(line) ==
    LET s == strip(line)
    IN  IF Contains(s, TAB) THEN SubSeq(s, 1, Find(s, TAB) - 1)
        ELSE IF Contains(s, SP) THEN SubSeq(s, 1, Find(s, SP) - 1)
        ELSE s

\* neither a sentinel nor made of digits and dots only
IsOddToken(t) ==
    /\ t # UNRELEASED
    /\ t # VERSION_PLACEHOLDER
    /\ \/ t = <<>>
       \/ \E k \in 1..Len(t) :
              t[k] \notin {"0","1","2","3","4","5","6","7","8","9","."}

\* C12: when the version token of the leading header is neither a sentinel
\* nor digits and dots, in any layout and whatever the date field, each of
\* find_pending, validate, mark_released and add_pending raises the
\* malformed-version signal carrying exactly that token, and nothing else
\* happens.
C12_OddVersionRaised ==
    (op # "init" /\ ~ReadSkip.raised /\ IsOddToken(VersionToken(ReadHeaderLine)))
        => /\ exc = "OddVersion"
           /\ args = <<VersionToken(ReadHeaderLine)>>
           /\ writes = 0
           /\ tree = read

\* add_pending met an odd version in front of a pending date in parentheses
C12_Witness ==
    /\ op = "add_pending"
    /\ ~ReadSkip.raised
    /\ IsOddToken(VersionToken(ReadHeaderLine))
    /\ LayoutOf(ReadHeaderLine) = "paren"
    /\ endswith(strip(ReadHeaderLine), <<"(">> \o UNRELEASED \o <<")">>)
    /\ exc = "OddVersion"

-----------------------------------------------------------------------------
(* C13 *)

\* C13: validate returns exactly when find_pending on the same document
\* returns a version or raises NoUnreleasedChanges; any other failure of
\* find_pending leaves validate unchanged.
C13_ValidateSwallowsOnlyNoUnreleased ==
    op = "validate" =>
        LET r == news_find_pending(read)
        IN  /\ exc = "none" <=> r.exc \in {"none", "NoUnreleasedChanges"}
            /\ r.exc \notin {"none", "NoUnreleasedChanges"} =>
                   exc = r.exc /\ args = r.args
            /\ exc = "none" => ret = None

\* validate let a malformed version through to its caller
C13_Witness ==
    /\ op = "validate"
    /\ exc = "OddVersion"
    /\ args = <<ODD>>

-----------------------------------------------------------------------------
(* C14 *)

\* C14: find_pending and validate never write, so a find_pending repeated
\* on the document as the last one left it returns the same version or
\* raises the same signal.
C14_QueriesReadOnly ==
    /\ op \in {"find_pending", "validate"} => writes = 0 /\ tree = read
    /\ op = "find_pending" =>
           LET again == news_find_pending(tree)
           IN  /\ again.exc = exc
               /\ again.args = args
               /\ again.ret = ret
               /\ again.writes = 0
               /\ again.tree = tree

\* find_pending returned the version of a pending entry under a title
C14_Witness ==
    /\ op = "find_pending"
    /\ exc = "none"
    /\ ret = V12
    /\ ReadIndex > 0

-----------------------------------------------------------------------------
(* C15 *)

IsBlank(line) == \A k \in 1..Len(line) : line[k] \in Whitespace

HasTitle(lines) ==
    /\ Len(lines) >= 1
    /\ Len(lines[1]) >= Len(ChangelogFor)
    /\ \A k \in 1..Len(ChangelogFor) : lines[1][k] = ChangelogFor[k]

\* an underline of '=' characters of any length
EqualsOnly(line) ==
    /\ ~IsBlank(line)
    /\ \A k \in 1..Len(line) : line[k] = "=" \/ line[k] \in Whitespace
    /\ line[1] = "="

\* a line that begins with six '=' characters
SixEquals(line) == Len(line) >= 6 /\ \A k \in 1..6 : line[k] = "="

\* i is the 0-based index of the leading header of lines, when U says which
\* lines count as the underline of the title
IsLeadingIndex(lines, i, U(_)) ==
    IF ~HasTitle(lines) THEN i = 0
    ELSE LET u == IF Len(lines) >= 2 /\ U(lines[2]) THEN 2 ELSE 1
         IN  /\ u <= i /\ i < Len(lines)
             /\ \A j \in u..(i - 1) : IsBlank(lines[j + 1])
             /\ ~IsBlank(lines[i + 1])

\* the outcome of the last call is that of parsing the line at index i
ParsesLineAt(i) ==
    LET p == parse_version_line(ReadLines[i + 1])
    IN  /\ p.exc = "OddVersion" => exc = "OddVersion" /\ args = p.args
        /\ p.exc = "none" => exc # "OddVersion"
        /\ (op = "find_pending" /\ exc = "none") => ret = p.version
        /\ exc = "PendingExists" => args = <<p.version, p.date>>
        /\ (op = "mark_released" /\ exc = "none") =>
               /\ input[1] = p.version
               /\ \A j \in 1..Len(ReadLines) :
                      j # i + 1 => WrittenLines[j] = ReadLines[j]
        /\ (op = "add_pending" /\ exc = "none") =>
               /\ ~p.pending
               /\ WrittenLines[i + 2] = <<NL>>
               /\ WrittenLines[i + 3] = ReadLines[i + 1]

\* C15: the header skipper gives 0 when line 0 does not begin with
\* "Changelog for ", and otherwise the index of the first non-blank line
\* after the title and after an underline of '=' characters of any length
\* right under it; every operation parses the line at that index.
C15_SkipsAnyUnderline ==
    (op # "init" /\ ~ReadSkip.raised) =>
        /\ IsLeadingIndex(ReadLines, ReadIndex, EqualsOnly)
        /\ ParsesLineAt(ReadIndex)

\* the same with the underline the code knows: a line that begins with six
\* '=' characters; whenever the document has such a leading index, the
\* skipper returns it and the operation parses the line there
C15_SkipsSixEquals ==
    op # "init" =>
        \A i \in 0..(Len(ReadLines) - 1) :
            IsLeadingIndex(ReadLines, i, SixEquals) =>
                /\ ~ReadSkip.raised
                /\ ReadIndex = i
                /\ ParsesLineAt(i)

\* a header was found under a title, its underline and a blank line
C15_Witness ==
    /\ op = "find_pending" /\ exc = "none"
    /\ HasTitle(ReadLines)
    /\ SixEquals(ReadLines[2])
    /\ ReadIndex = 3

-----------------------------------------------------------------------------
(* C16 *)

\* C16: the version parsed from a line the grammar accepts is not empty;
\* so neither is the version find_pending returns nor the one
\* PendingExists carries.
C16_VersionNeverEmpty ==
    /\ (op # "init" /\ Accepted) => ReadHeader.version # <<>>
    /\ (op = "find_pending" /\ exc = "none") => ret # <<>> /\ ret # None
    /\ exc = "PendingExists" => args[1] # <<>>
    /\ (op # "init" /\ ~ReadSkip.raised /\ IsBlank(ReadHeaderLine)) =>
           exc = "OddVersion" /\ args = << <<>> >>

\* a blank first line, taken as the header, was refused as a malformed
\* version
C16_Witness ==
    /\ op = "find_pending"
    /\ ~ReadSkip.raised
    /\ IsBlank(ReadHeaderLine)
    /\ exc = "OddVersion"

====
